---- MODULE Spec2Model ----
(***************************************************************************)
(* Model of Vaskivskyi/ha-analytics:                                       *)
(*   script/custom_integration_badges.py  - the badge run (async_test)     *)
(*   script/generate_history.py           - history generation (main)      *)
(* A version label is a sequence of one-character strings, so that the     *)
(* character substitutions of generate_history.py are computed, not        *)
(* assumed.  A file name is the tuple of the pieces the code concatenates: *)
(* <<"total.json">> or <<"version-", label, ".json">>.                     *)
(***************************************************************************)
EXTENDS Integers, Sequences, FiniteSets, TLC

\* ------------------------------------------------------------------ bounds
MaxDay == 2         \* calendar dates range over 1..MaxDay
MaxFaults == 1      \* at most MaxFaults requests or file operations fail

\* ----------------------------------------------------------- the data feed
Integrations == {"foo", "bar"}
\* Installation counts: the code copies them and writes them, and nothing in
\* it computes with them, so two distinct values stand for all.
Counts == {1, 2}
Dates == 1..MaxDay

V1 == <<"1", ".", "0">>
V2 == <<"2", ".", "0">>
BadgeLabels == {V1, V2}

\* All mappings from a subset of S to T (a Python dict with keys in S).
Dict(S, T) == UNION {[D -> T] : D \in SUBSET S}

\* data[integration]: "total" and "versions" are both optional keys.
IntegrationData(labels) ==
    [has_total: {TRUE}, total: Counts, has_versions: {TRUE}, versions: Dict(labels, Counts)]
    \cup [has_total: {FALSE}, total: {0}, has_versions: {TRUE}, versions: Dict(labels, Counts)]
    \cup [has_total: {TRUE}, total: Counts, has_versions: {FALSE}, versions: {<< >>}]
    \cup [has_total: {FALSE}, total: {0}, has_versions: {FALSE}, versions: {<< >>}]

\* What the endpoint may return to a badge run: "foo" with any data, "bar"
\* absent or with a total only.
BadgeFeed ==
    {s \in Dict(Integrations, IntegrationData(BadgeLabels)) :
        "bar" \in DOMAIN s => (~s["bar"].has_versions /\ s["bar"].has_total /\ s["bar"].total = 1)}

\* A smaller feed for the runs that span several dates: "foo" only, with a
\* total of 1 or none and version 1.0 or none.
StoreFeed ==
    {s \in BadgeFeed :
        /\ "bar" \notin DOMAIN s
        /\ \A i \in DOMAIN s :
              /\ s[i].total <= 1
              /\ \A v \in DOMAIN s[i].versions : v = V1 /\ s[i].versions[v] = 1}

\* ------------------------------------------------------------------- state
VARIABLES
    today,          \* date.today()
    raw,            \* docs/raw/custom_integrations/: file -> the JSON object it holds
    rawOther,       \* docs/raw/custom_integrations/: file -> what else it holds
    badgeDirs,      \* docs/badges/: the integration directories that exist
    badgeFiles,     \* docs/badges/: <<integration, file name>> -> badge
    file_changes,   \* the module's global change record
    pc,             \* position of the badge process
    data,           \* async_test: data
    todo,           \* async_test: integrations the for loop has not reached
    integration,    \* async_test: the loop variable
    version_files,  \* cleanup_old_version_files: files the loop has not reached
    versions_todo,  \* async_test: versions the inner loop has not reached
    removeErrors,   \* paths printed as "Error removing ..."
    exc,            \* the exception that ended the process (its file or URL), or << >>
    filesBefore,    \* docs/badges/ as the running process found it
    rerun,          \* the process before this one completed, with the same data
    faults,         \* the requests and file operations that have failed so far
    histDirs,       \* docs/history/: the integration directories that exist
    histFiles,      \* docs/history/: path -> the (date, count) lines of the file
    hpc,            \* position of the history process
    date_data,      \* main: date_data
    htodo,          \* main: integrations the for loop has not reached
    histBefore,     \* docs/history/ as the running history process found it
    added_date,     \* the one date loaded now and not by the completed run before, or 0
    baseline,       \* the last history process completed and its raw files are as it loaded them
    newDates,       \* the dates that got their raw file since the last history process
    histRemoveErrors, \* paths printed as "Error removing ..." by the history process
    rmtreeErrors,   \* directories printed as "Error removing directory ..."
    dir_listing,    \* cleanup, on its own: the file names in integration_path
    current_list,   \* cleanup, on its own: the argument current_versions
    spc,            \* cleanup, on its own: position of simulation and main script
    files_to_remove, \* cleanup_old_version_files_simulation: files_to_remove
    files_to_keep,  \* cleanup_old_version_files_simulation: files_to_keep
    main_todo,      \* cleanup_old_version_files: files its loop has not reached
    dir_before,     \* the file names in integration_path before the cleanup
    remove_failed   \* an os.remove of cleanup_old_version_files has failed

badgeVars == <<badgeDirs, badgeFiles, file_changes, pc, data, todo, integration,
               version_files, versions_todo, removeErrors, exc, filesBefore, rerun>>

histVars == <<histDirs, histFiles, hpc, date_data, htodo, histBefore, added_date,
              baseline, newDates, histRemoveErrors, rmtreeErrors>>

simVars == <<dir_listing, current_list, spc, files_to_remove, files_to_keep,
             main_todo, dir_before, remove_failed>>

mainVars == <<today, raw, rawOther, faults, badgeVars, histVars>>

vars == <<mainVars, simVars>>

\* ----------------------------------------------------------------- helpers
Put(f, k, v) == [x \in DOMAIN f \cup {k} |-> IF x = k THEN v ELSE f[x]]
Drop(f, k) == [x \in DOMAIN f \ {k} |-> f[x]]

DATA_URL == "https://analytics.home-assistant.io/custom_integrations.json"
PROCESSED_PATH == "docs/badges/"
RAW_PATH == "docs/raw/custom_integrations/"

\* RAW_PATH + today.isoformat() + ".json"
RawPath(date) == <<RAW_PATH, date, ".json">>
\* PROCESSED_PATH + integration + "/" + file name
BadgePath(i, filename) == <<PROCESSED_PATH, i, filename>>

TotalName == <<"total.json">>
VersionName(version) == <<"version-", version, ".json">>

\* glob "version-*.json" with the startswith/endswith test
IsVersionFile(filename) ==
    Len(filename) = 3 /\ filename[1] = "version-" /\ filename[3] = ".json"

\* filename.removeprefix("version-").removesuffix(".json")
VersionOfFile(filename) == filename[2]

\* generate_badge: the message is the decimal text of the count, kept as the count
generate_badge(installations) ==
    [schemaVersion |-> 1, label |-> "Installations", message |-> installations]

EmptyChanges == [added |-> << >>, modified |-> << >>, removed |-> << >>]

Range(seq) == {seq[n] : n \in 1..Len(seq)}

\* The characters of the file names, in code point order.
CodePoints ==
    <<"-", ".", "/", "0", "1", "2", "3", "4", "5", "6", "7", "8", "9", "\\", "_",
      "a", "b", "j", "n", "o", "s">>
CodePoint(c) == CHOOSE n \in DOMAIN CodePoints : CodePoints[n] = c

\* Python's order of str, on sequences of characters.
StrLess(a, b) ==
    \E n \in 1..(Len(b)) :
       /\ \A m \in 1..(n - 1) : m <= Len(a) /\ a[m] = b[m]
       /\ \/ n = Len(a) + 1
          \/ n <= Len(a) /\ CodePoint(a[n]) < CodePoint(b[n])

\* ------------------------------------------------- the names of raw files
\* A raw file is known by a number.  The numbers 1..9 are the dates on which
\* the badge script runs, 30 September and the days of October after it, and
\* the file has the name that isoformat() gives the date.  10 + d is the file
\* of the same date d named without leading zeros, and InvalidName a file
\* whose name is no date.  The texts leave out the year and its hyphen, the
\* same in every name, and ".json".
Digits == <<"0", "1", "2", "3", "4", "5", "6", "7", "8", "9">>
DigitValue(c) == (CHOOSE n \in DOMAIN Digits : Digits[n] = c) - 1
TwoDigits(n) == <<Digits[(n \div 10) + 1], Digits[(n % 10) + 1]>>
Decimal(n) == IF n < 10 THEN <<Digits[n + 1]>> ELSE TwoDigits(n)

Month(d) == IF d = 1 THEN 9 ELSE 10
DayOfMonth(d) == IF d = 1 THEN 30 ELSE d - 1

\* date.isoformat()
isoformat(d) == TwoDigits(Month(d)) \o <<"-">> \o TwoDigits(DayOfMonth(d))

InvalidName == 20
FileStem(k) ==
    IF k < 10 THEN isoformat(k)
    ELSE IF k < InvalidName
         THEN Decimal(Month(k - 10)) \o <<"-">> \o Decimal(DayOfMonth(k - 10))
         ELSE <<"1", "3", "-", "0", "1">>

\* datetime.strptime(date_str, "%Y-%m-%d"): one or two digits for the month
\* and for the day, of a month and a day that exist
DaysIn(month) == IF month \in {4, 6, 9, 11} THEN 30 ELSE IF month = 2 THEN 29 ELSE 31
Number(digits) ==
    IF Len(digits) = 1 THEN DigitValue(digits[1])
    ELSE 10 * DigitValue(digits[1]) + DigitValue(digits[2])
strptime(date_str) ==
    LET hyphen == CHOOSE n \in DOMAIN date_str : date_str[n] = "-"
        month == SubSeq(date_str, 1, hyphen - 1)
        day == SubSeq(date_str, hyphen + 1, Len(date_str))
    IN  IF /\ Len(month) \in 1..2 /\ Len(day) \in 1..2
           /\ Number(month) \in 1..12
           /\ Number(day) \in 1..DaysIn(Number(month))
        THEN [valid |-> TRUE, month |-> Number(month), day |-> Number(day)]
        ELSE [valid |-> FALSE, month |-> 0, day |-> 0]

\* The raw files there may be.
FileKeys == Dates \cup {10 + d : d \in Dates} \cup {InvalidName}

\* The order of str on the date strings, which are the keys of date_data:
\* the rank of a key is the number of keys whose string is before its own.
KeyRank ==
    [k \in FileKeys |-> Cardinality({j \in FileKeys : StrLess(FileStem(j), FileStem(k))})]
KeyLess(j, k) == KeyRank[j] < KeyRank[k]

\* ------------------------------------------------------------ the badge run
Init ==
    /\ today = 1
    /\ raw = << >>
    /\ rawOther = << >>
    /\ badgeDirs = {}
    /\ badgeFiles = << >>
    /\ file_changes = EmptyChanges
    /\ pc = "start"
    /\ data = << >>
    /\ todo = {}
    /\ integration = ""
    /\ version_files = {}
    /\ versions_todo = {}
    /\ removeErrors = {}
    /\ exc = << >>
    /\ filesBefore = << >>
    /\ rerun = FALSE
    /\ faults = 0
    /\ histDirs = {}
    /\ histFiles = << >>
    /\ hpc = "idle"
    /\ date_data = << >>
    /\ htodo = {}
    /\ histBefore = << >>
    /\ added_date = 0
    /\ baseline = FALSE
    /\ newDates = {}
    /\ histRemoveErrors = {}
    /\ rmtreeErrors = {}
    /\ dir_listing = {}
    /\ current_list = {}
    /\ spc = "start"
    /\ files_to_remove = {}
    /\ files_to_keep = {}
    /\ main_todo = {}
    /\ dir_before = {}
    /\ remove_failed = FALSE

\* The operating system or the network refuses one operation.
Fault == faults < MaxFaults /\ faults' = faults + 1

\* A process starts with the module's globals as written in the source.
NewProcess ==
    /\ pc \in {"start", "done", "failed"}
    /\ filesBefore' = badgeFiles
    /\ removeErrors' = {}

\* Mutant: the file name does not depend on the date.
StoreRaw_fixedName(json_body) ==
    LET path == RawPath(1)
        is_new_file == 1 \notin DOMAIN raw \cup DOMAIN rawOther
    IN  /\ raw' = Put(raw, 1, json_body)
        /\ rawOther' = Drop(rawOther, 1)
        /\ file_changes' =
              IF is_new_file
              THEN [EmptyChanges EXCEPT !.added = <<path>>]
              ELSE [EmptyChanges EXCEPT !.modified = <<path>>]

\* async_get_data, lines 33-52: store json_body under today's date and record
\* the path in file_changes, which a new process finds empty.
StoreRaw(json_body) ==
    LET path == RawPath(today)
        is_new_file == today \notin DOMAIN raw \cup DOMAIN rawOther
    IN  /\ raw' = Put(raw, today, json_body)
        /\ rawOther' = Drop(rawOther, today)
        /\ file_changes' =
              IF is_new_file
              THEN [EmptyChanges EXCEPT !.added = <<path>>]
              ELSE [EmptyChanges EXCEPT !.modified = <<path>>]

\* async_get_data returning json_body to async_test, which starts its loop.
AsyncGetData(json_body) ==
    /\ NewProcess
    /\ StoreRaw(json_body)
    /\ rerun' = (pc = "done" /\ json_body = data)
    /\ data' = json_body
    /\ todo' = DOMAIN json_body
    /\ pc' = "loop"
    /\ exc' = << >>
    /\ UNCHANGED <<today, badgeDirs, badgeFiles, integration, version_files,
                   versions_todo, faults>>
    /\ UNCHANGED <<histVars, simVars>>

\* The request or r.json() raises: nothing is stored, the process ends.
AsyncGetDataFails ==
    /\ Fault
    /\ NewProcess
    /\ file_changes' = EmptyChanges
    /\ data' = << >>
    /\ todo' = {}
    /\ exc' = <<DATA_URL>>
    /\ rerun' = FALSE
    /\ pc' = "failed"
    /\ UNCHANGED <<today, raw, badgeDirs, badgeFiles, integration, version_files,
                   versions_todo>>
    /\ UNCHANGED <<histVars, simVars, rawOther>>

\* The files of an integration's badge directory.
FilesIn(i) == {p \in DOMAIN badgeFiles : p[2] = i}

\* A variant that lists the version files of every badge directory.
GlobVersionFiles_everywhere(i) == {p \in DOMAIN badgeFiles : IsVersionFile(p[3])}

\* glob.glob(os.path.join(integration_path, "version-*.json"))
GlobVersionFiles(i) == {p \in FilesIn(i) : IsVersionFile(p[3])}

\* current_versions of async_test, lines 112-114
CurrentVersions(integration_data) ==
    IF integration_data.has_versions THEN DOMAIN integration_data.versions ELSE {}

\* async_test, lines 105-117: the next integration, its directory, and the
\* listing that cleanup_old_version_files takes of it.
NextIntegration ==
    /\ pc = "loop"
    /\ \E i \in todo :
         /\ integration' = i
         /\ todo' = todo \ {i}
         /\ badgeDirs' = badgeDirs \cup {i}
         /\ version_files' = GlobVersionFiles(i)
         /\ pc' = "cleanup"
    /\ UNCHANGED <<today, raw, badgeFiles, file_changes, data, versions_todo,
                   removeErrors, exc, filesBefore, rerun, faults>>
    /\ UNCHANGED <<histVars, simVars, rawOther>>

\* Mutant: the membership test of line 78 inverted.
IsOldVersionFile_inverted(version_file, current_versions) ==
    VersionOfFile(version_file[3]) \in current_versions

\* cleanup_old_version_files, line 78: whether a listed file is to be removed.
IsOldVersionFile(version_file, current_versions) ==
    VersionOfFile(version_file[3]) \notin current_versions

\* cleanup_old_version_files, lines 73-78: a listed file of a current version.
CleanupKeep ==
    /\ pc = "cleanup"
    /\ \E version_file \in version_files :
         /\ ~IsOldVersionFile(version_file, CurrentVersions(data[integration]))
         /\ version_files' = version_files \ {version_file}
    /\ UNCHANGED <<today, raw, badgeDirs, badgeFiles, file_changes, pc, data, todo,
                   integration, versions_todo, removeErrors, exc, filesBefore,
                   rerun, faults>>
    /\ UNCHANGED <<histVars, simVars, rawOther>>

\* A variant that reports the file as removed and leaves it in place.
RemoveVersionFile_reportsOnly(version_file) ==
    /\ file_changes' =
          [file_changes EXCEPT !.removed = Append(file_changes.removed, version_file)]
    /\ UNCHANGED <<badgeFiles, removeErrors>>

\* cleanup_old_version_files, lines 79-82: os.remove succeeds.
RemoveVersionFile(version_file) ==
    /\ badgeFiles' = Drop(badgeFiles, version_file)
    /\ file_changes' =
          [file_changes EXCEPT !.removed = Append(file_changes.removed, version_file)]
    /\ UNCHANGED removeErrors

\* A variant that reports the file as removed before os.remove raises.
RemoveVersionFileFails_records(version_file) ==
    /\ removeErrors' = removeErrors \cup {version_file}
    /\ file_changes' =
          [file_changes EXCEPT !.removed = Append(file_changes.removed, version_file)]
    /\ UNCHANGED badgeFiles

\* cleanup_old_version_files, lines 83-84: os.remove raises OSError.
RemoveVersionFileFails(version_file) ==
    /\ removeErrors' = removeErrors \cup {version_file}
    /\ UNCHANGED <<badgeFiles, file_changes>>

CleanupRemove ==
    /\ pc = "cleanup"
    /\ \E version_file \in version_files :
         /\ IsOldVersionFile(version_file, CurrentVersions(data[integration]))
         /\ version_files' = version_files \ {version_file}
         /\ RemoveVersionFile(version_file)
    /\ UNCHANGED <<today, raw, badgeDirs, pc, data, todo, integration,
                   versions_todo, exc, filesBefore, rerun, faults>>
    /\ UNCHANGED <<histVars, simVars, rawOther>>

CleanupRemoveFails ==
    /\ Fault
    /\ pc = "cleanup"
    /\ \E version_file \in version_files :
         /\ IsOldVersionFile(version_file, CurrentVersions(data[integration]))
         /\ version_files' = version_files \ {version_file}
         /\ RemoveVersionFileFails(version_file)
    /\ UNCHANGED <<today, raw, badgeDirs, pc, data, todo, integration,
                   versions_todo, exc, filesBefore, rerun>>
    /\ UNCHANGED <<histVars, simVars, rawOther>>

\* write_badge_file, lines 87-99: open and json.dump succeed.
write_badge_file(file_path, badge_data) ==
    LET is_new_file == file_path \notin DOMAIN badgeFiles
    IN  /\ badgeFiles' = Put(badgeFiles, file_path, badge_data)
        /\ file_changes' =
              IF is_new_file
              THEN [file_changes EXCEPT !.added = Append(file_changes.added, file_path)]
              ELSE [file_changes EXCEPT !.modified = Append(file_changes.modified, file_path)]

\* write_badge_file, lines 91-92: open raises OSError, which nothing catches;
\* the process ends before print_summary.
WriteRaises(file_path) ==
    /\ exc' = file_path
    /\ pc' = "failed"
    /\ UNCHANGED <<badgeFiles, file_changes>>

\* async_test, lines 119-122, once the cleanup loop has ended.
WriteTotal ==
    /\ pc = "cleanup" /\ version_files = {}
    /\ data[integration].has_total
    /\ write_badge_file(BadgePath(integration, TotalName),
                        generate_badge(data[integration].total))
    /\ versions_todo' = CurrentVersions(data[integration])
    /\ pc' = "versions"
    /\ UNCHANGED <<today, raw, badgeDirs, data, todo, integration, version_files,
                   removeErrors, exc, filesBefore, rerun, faults>>
    /\ UNCHANGED <<histVars, simVars, rawOther>>

WriteTotalFails ==
    /\ Fault
    /\ pc = "cleanup" /\ version_files = {}
    /\ data[integration].has_total
    /\ WriteRaises(BadgePath(integration, TotalName))
    /\ UNCHANGED <<today, raw, badgeDirs, data, todo, integration, version_files,
                   versions_todo, removeErrors, filesBefore, rerun>>
    /\ UNCHANGED <<histVars, simVars, rawOther>>

\* async_test, line 120: no "total" key, nothing is written.
NoTotal ==
    /\ pc = "cleanup" /\ version_files = {}
    /\ ~data[integration].has_total
    /\ versions_todo' = CurrentVersions(data[integration])
    /\ pc' = "versions"
    /\ UNCHANGED <<today, raw, badgeDirs, badgeFiles, file_changes, data, todo,
                   integration, version_files, removeErrors, exc, filesBefore,
                   rerun, faults>>
    /\ UNCHANGED <<histVars, simVars, rawOther>>

\* async_test, lines 124-127: one version's badge.
WriteVersion ==
    /\ pc = "versions"
    /\ \E version \in versions_todo :
         /\ versions_todo' = versions_todo \ {version}
         /\ write_badge_file(BadgePath(integration, VersionName(version)),
                             generate_badge(data[integration].versions[version]))
    /\ UNCHANGED <<today, raw, badgeDirs, pc, data, todo, integration,
                   version_files, removeErrors, exc, filesBefore, rerun, faults>>
    /\ UNCHANGED <<histVars, simVars, rawOther>>

WriteVersionFails ==
    /\ Fault
    /\ pc = "versions"
    /\ \E version \in versions_todo :
         WriteRaises(BadgePath(integration, VersionName(version)))
    /\ UNCHANGED <<today, raw, badgeDirs, data, todo, integration, version_files,
                   versions_todo, removeErrors, filesBefore, rerun>>
    /\ UNCHANGED <<histVars, simVars, rawOther>>

\* async_test, line 105: the inner loop has ended, on to the next integration.
EndIntegration ==
    /\ pc = "versions" /\ versions_todo = {}
    /\ pc' = "loop"
    /\ UNCHANGED <<today, raw, badgeDirs, badgeFiles, file_changes, data, todo,
                   integration, version_files, versions_todo, removeErrors, exc,
                   filesBefore, rerun, faults>>
    /\ UNCHANGED <<histVars, simVars, rawOther>>

\* print_summary, lines 130-168, after async_test has returned.
summary_data ==
    [total_changes |-> Len(file_changes.added) + Len(file_changes.modified)
                         + Len(file_changes.removed),
     added |-> file_changes.added,
     modified |-> file_changes.modified,
     removed |-> file_changes.removed]

\* async_test returns and print_summary writes summary_data, which is
\* file_changes as it stands: nothing changes it afterwards.  The loop
\* variable is gone with the function.
print_summary ==
    /\ pc = "loop" /\ todo = {}
    /\ integration' = ""
    /\ pc' = "done"
    /\ UNCHANGED <<today, raw, badgeDirs, badgeFiles, file_changes, data, todo,
                   version_files, versions_todo, removeErrors, exc,
                   filesBefore, rerun, faults>>
    /\ UNCHANGED <<histVars, simVars, rawOther>>

Fetch == \E json_body \in BadgeFeed : AsyncGetData(json_body)

BadgeRun ==
    \/ AsyncGetDataFails
    \/ NextIntegration
    \/ CleanupKeep
    \/ CleanupRemove
    \/ CleanupRemoveFails
    \/ WriteTotal
    \/ WriteTotalFails
    \/ NoTotal
    \/ WriteVersion
    \/ WriteVersionFails
    \/ EndIntegration
    \/ print_summary

Next == Fetch \/ BadgeRun

Spec == Init /\ [][Next]_vars

\* date.today(), which the code reads in async_get_data only: the date
\* changes between two processes.  Neither script reads it elsewhere.
NextDay ==
    /\ pc \in {"start", "done", "failed"}
    /\ hpc = "idle"
    /\ today < MaxDay
    /\ today' = today + 1
    /\ UNCHANGED <<raw, badgeDirs, badgeFiles, file_changes, pc, data, todo,
                   integration, version_files, versions_todo, removeErrors, exc,
                   filesBefore, rerun, faults>>
    /\ UNCHANGED <<histVars, simVars, rawOther>>

FetchStore == \E json_body \in StoreFeed : AsyncGetData(json_body)

NextStore == FetchStore \/ BadgeRun \/ NextDay

\* Badge runs over several dates.
SpecStore == Init /\ [][NextStore]_vars

\* ------------------------------------------------------ history generation
HISTORY_PATH == "docs/history/"

SL == <<"a", "/", "b">>
US == <<"a", "_", "b">>
HistoryLabels == {SL, US}

\* What the raw files may hold in the runs of history generation: "foo"
\* absent or with one of two data, "bar" absent or with a total.
HistoryFoo ==
    {[has_total |-> TRUE, total |-> 1, has_versions |-> TRUE, versions |-> [v \in {SL} |-> 1]],
     [has_total |-> FALSE, total |-> 0, has_versions |-> TRUE,
      versions |-> [v \in {SL, US} |-> IF v = SL THEN 2 ELSE 1]]}

HistoryBar ==
    {[has_total |-> TRUE, total |-> 1, has_versions |-> FALSE, versions |-> << >>]}

HistoryFeed ==
    {s \in Dict(Integrations, HistoryFoo \cup HistoryBar) :
        /\ "foo" \in DOMAIN s => s["foo"] \in HistoryFoo
        /\ "bar" \in DOMAIN s => s["bar"] \in HistoryBar}

\* os.path.join(HISTORY_PATH, integration_name, file name)
HistPath(i, filename) == <<HISTORY_PATH, i, filename>>

\* str.replace on a label, character by character
Replace(str, old, new) == [n \in 1..Len(str) |-> IF str[n] = old THEN new ELSE str[n]]

\* process_integration_history, line 109
SafeVersion(version) == Replace(Replace(version, "/", "_"), "\\", "_")

\* cleanup_old_version_files, line 129
OriginalVersion(version) == Replace(version, "_", "/")

\* sorted() of a set of date strings
RECURSIVE Sorted(_)
Sorted(S) ==
    IF S = {} THEN << >>
    ELSE LET least == CHOOSE x \in S : \A y \in S \ {x} : KeyLess(x, y)
         IN  <<least>> \o Sorted(S \ {least})

\* write_git_friendly_json: one "key": value line per item, sorted by key
write_git_friendly_json(series) ==
    LET keys == Sorted(DOMAIN series)
    IN  [n \in 1..Len(keys) |-> <<keys[n], series[keys[n]]>>]

\* A variant that starts the series of a label anew on every date.
RecordVersions_resets(version_histories, date, versions) ==
    [v \in DOMAIN version_histories \cup DOMAIN versions |->
        IF v \in DOMAIN versions
        THEN Put(<< >>, date, versions[v])
        ELSE version_histories[v]]

\* process_integration_history, lines 92-97: one day's versions recorded
RecordVersions(version_histories, date, versions) ==
    [v \in DOMAIN version_histories \cup DOMAIN versions |->
        IF v \in DOMAIN versions
        THEN Put(IF v \in DOMAIN version_histories THEN version_histories[v] ELSE << >>,
                 date, versions[v])
        ELSE version_histories[v]]

\* process_integration_history, lines 80-97: the loop over sorted_dates
RECURSIVE CollectHistory(_, _, _, _)
CollectHistory(integration_name, dd, sorted_dates, acc) ==
    IF sorted_dates = << >> THEN acc
    ELSE LET date == Head(sorted_dates)
             day_data == dd[date]
         IN  IF integration_name \notin DOMAIN day_data
             THEN CollectHistory(integration_name, dd, Tail(sorted_dates), acc)
             ELSE LET integration_data == day_data[integration_name]
                      total_history ==
                          IF integration_data.has_total
                          THEN Put(acc.total_history, date, integration_data.total)
                          ELSE acc.total_history
                      version_histories ==
                          IF integration_data.has_versions
                          THEN RecordVersions(acc.version_histories, date,
                                              integration_data.versions)
                          ELSE acc.version_histories
                  IN  CollectHistory(integration_name, dd, Tail(sorted_dates),
                                     [total_history |-> total_history,
                                      version_histories |-> version_histories])

\* process_integration_history, lines 73-97
History(integration_name, dd) ==
    CollectHistory(integration_name, dd, Sorted(DOMAIN dd),
                   [total_history |-> << >>, version_histories |-> << >>])

Min(S) == CHOOSE x \in S : \A y \in S : x <= y

\* The first and the last of a set of date strings in the order of str.
MinDate(S) == CHOOSE x \in S : \A y \in S \ {x} : KeyLess(x, y)
MaxDate(S) == CHOOSE x \in S : \A y \in S \ {x} : KeyLess(y, x)

\* The order in which the JSON documents of HistoryFeed list their labels.
DocumentOrder == <<SL, US>>
Position(v) == CHOOSE n \in DOMAIN DocumentOrder : DocumentOrder[n] = v

\* The order in which version_histories.items() lists the labels: a dict
\* lists its keys as inserted, here by the first date of the label, and within
\* one date in the order of the JSON document.
InsertionOrders(version_histories) ==
    LET labels == DOMAIN version_histories
        first(v) == MinDate(DOMAIN version_histories[v])
    IN  {order \in [1..Cardinality(labels) -> labels] :
            /\ \A v \in labels : \E n \in DOMAIN order : order[n] = v
            /\ \A m, n \in DOMAIN order :
                  m < n => \/ KeyLess(first(order[m]), first(order[n]))
                           \/ /\ first(order[m]) = first(order[n])
                              /\ Position(order[m]) < Position(order[n])}

\* process_integration_history, lines 99-112: the files it opens, in order,
\* each with what it writes
HistoryWrites(integration_name, dd, order) ==
    LET h == History(integration_name, dd)
    IN  (IF h.total_history # << >>
         THEN << <<HistPath(integration_name, TotalName),
                   write_git_friendly_json(h.total_history)>> >>
         ELSE << >>)
        \o [n \in 1..Len(order) |->
               <<HistPath(integration_name, VersionName(SafeVersion(order[n]))),
                 write_git_friendly_json(h.version_histories[order[n]])>>]

RECURSIVE ApplyWrites(_, _)
ApplyWrites(files, writes) ==
    IF writes = << >> THEN files
    ELSE ApplyWrites(Put(files, Head(writes)[1], Head(writes)[2]), Tail(writes))

\* main, lines 155-164
AllIntegrations(dd) == UNION {DOMAIN dd[date] : date \in DOMAIN dd}
LatestDate(dd) == MaxDate(DOMAIN dd)
CurrentIntegrations(dd) == DOMAIN dd[LatestDate(dd)]

\* main, lines 173-177
HistoryCurrentVersions(integration_name, dd) ==
    IF integration_name \in DOMAIN dd[LatestDate(dd)]
    THEN CurrentVersions(dd[LatestDate(dd)][integration_name])
    ELSE {}

\* cleanup_old_version_files of generate_history.py, lines 121-132: the files
\* it tries to remove
HistoryOldVersionFiles(integration_name, current_versions) ==
    {p \in DOMAIN histFiles :
        /\ p[2] = integration_name
        /\ IsVersionFile(p[3])
        /\ LET version == VersionOfFile(p[3])
               original_version == OriginalVersion(version)
           IN  version \notin current_versions /\ original_version \notin current_versions}

Restrict(f, S) == [x \in DOMAIN f \cap S |-> f[x]]

\* sorted(all_integrations), line 169
SortedNames == <<"bar", "foo">>
FirstName(S) == SortedNames[Min({n \in DOMAIN SortedNames : SortedNames[n] \in S})]

HistoryIdle == hpc = "idle"

\* load_raw_data_files, lines 36-63: the files whose name strptime accepts
\* and whose content json.load parses, under their date strings.  Those that
\* hold a JSON object are the mapping it returns here; those that hold
\* another JSON value are in the dict as well, and are LoadedOthers.
ValidName(k) == strptime(FileStem(k)).valid
load_raw_data_files == [k \in {j \in DOMAIN raw : ValidName(j)} |-> raw[k]]
LoadedOthers == {k \in DOMAIN rawOther : ValidName(k) /\ rawOther[k] = "array"}

\* lines 59-61: the files it prints as skipped
SkippedFiles ==
    {k \in DOMAIN raw \cup DOMAIN rawOther : ~ValidName(k)}
    \cup {k \in DOMAIN rawOther : ValidName(k) /\ rawOther[k] = "unparsable"}

\* main, lines 143-147: load_raw_data_files returns an empty dict and main
\* returns.
MainNoData ==
    /\ HistoryIdle
    /\ load_raw_data_files = << >> /\ LoadedOthers = {}
    /\ date_data' = << >>
    /\ htodo' = {}
    /\ histBefore' = histFiles
    /\ added_date' = 0
    /\ baseline' = FALSE
    /\ newDates' = {}
    /\ histRemoveErrors' = {}
    /\ rmtreeErrors' = {}
    /\ hpc' = "done"
    /\ UNCHANGED <<today, raw, faults, histDirs, histFiles>>
    /\ UNCHANGED <<badgeVars, simVars, rawOther>>


\* The date that the files loaded now add to those of the completed run
\* before this one, when there is exactly one and nothing else differs.
AddedDate ==
    IF baseline /\ Cardinality(newDates) = 1
    THEN CHOOSE d \in newDates : TRUE
    ELSE 0

\* main, lines 143-166
MainLoad ==
    /\ HistoryIdle
    /\ load_raw_data_files # << >> /\ LoadedOthers = {}
    /\ date_data' = load_raw_data_files
    /\ htodo' = AllIntegrations(load_raw_data_files)
    /\ histBefore' = histFiles
    /\ added_date' = AddedDate
    /\ baseline' = FALSE
    /\ newDates' = {}
    /\ histRemoveErrors' = {}
    /\ rmtreeErrors' = {}
    /\ hpc' = "loop"
    /\ UNCHANGED <<today, raw, faults, histDirs, histFiles>>
    /\ UNCHANGED <<badgeVars, simVars, rawOther>>

\* main, lines 160-161: a loaded file holds a JSON array, day_data.keys()
\* raises AttributeError, which nothing catches, and main ends there.
MainLoadRaises ==
    /\ HistoryIdle
    /\ LoadedOthers # {}
    /\ date_data' = load_raw_data_files
    /\ htodo' = {}
    /\ histBefore' = histFiles
    /\ added_date' = 0
    /\ baseline' = FALSE
    /\ newDates' = {}
    /\ histRemoveErrors' = {}
    /\ rmtreeErrors' = {}
    /\ hpc' = "failed"
    /\ UNCHANGED <<today, raw, faults, histDirs, histFiles>>
    /\ UNCHANGED <<badgeVars, simVars, rawOther>>

\* main, lines 169-184, one pass of the loop: cleanup_old_version_files, where
\* os.remove fails for the files in failing, then process_integration_history,
\* which gets to complete the first `written` of its writes.
ProcessIntegration(integration_name, failing, order, written) ==
    LET old == HistoryOldVersionFiles(integration_name,
                                      HistoryCurrentVersions(integration_name, date_data))
        cleaned == Restrict(histFiles, DOMAIN histFiles \ (old \ failing))
        writes == HistoryWrites(integration_name, date_data, order)
    IN  /\ failing \subseteq old
        /\ written <= Len(writes)
        /\ histRemoveErrors' = histRemoveErrors \cup failing
        /\ histDirs' = histDirs \cup {integration_name}
        /\ histFiles' = ApplyWrites(cleaned, SubSeq(writes, 1, written))
        /\ IF written = Len(writes)
           THEN hpc' = "loop" /\ htodo' = htodo \ {integration_name}
           ELSE hpc' = "failed" /\ htodo' = htodo
        /\ faults' = faults + Cardinality(failing) + (IF written < Len(writes) THEN 1 ELSE 0)
        /\ faults' <= MaxFaults

\* The integration of the pass and the files its cleanup would remove.
ThisIntegration == FirstName(htodo)
ThisOld ==
    HistoryOldVersionFiles(ThisIntegration, HistoryCurrentVersions(ThisIntegration, date_data))
ThisOrders == InsertionOrders(History(ThisIntegration, date_data).version_histories)

\* One pass of the loop of main in which no operation fails.
HistoryIntegration ==
    /\ hpc = "loop" /\ htodo # {}
    /\ \E order \in ThisOrders :
          ProcessIntegration(ThisIntegration, {}, order,
                             Len(HistoryWrites(ThisIntegration, date_data, order)))
    /\ UNCHANGED <<today, raw, date_data, histBefore, added_date, baseline, newDates,
                   rmtreeErrors>>
    /\ UNCHANGED <<badgeVars, simVars, rawOther>>

\* cleanup_old_version_files, lines 136-137: os.remove raises OSError for some
\* files, which is printed; the pass goes on.
HistoryIntegrationRemoveFails ==
    /\ hpc = "loop" /\ htodo # {}
    /\ \E order \in ThisOrders, failing \in SUBSET ThisOld \ {{}} :
          ProcessIntegration(ThisIntegration, failing, order,
                             Len(HistoryWrites(ThisIntegration, date_data, order)))
    /\ UNCHANGED <<today, raw, date_data, histBefore, added_date, baseline, newDates,
                   rmtreeErrors>>
    /\ UNCHANGED <<badgeVars, simVars, rawOther>>

\* process_integration_history, lines 102 and 111: open raises OSError, which
\* nothing catches; main ends there.
HistoryIntegrationWriteRaises ==
    /\ hpc = "loop" /\ htodo # {}
    /\ \E order \in ThisOrders, failing \in SUBSET ThisOld :
          \E written \in 0..(Len(HistoryWrites(ThisIntegration, date_data, order)) - 1) :
             ProcessIntegration(ThisIntegration, failing, order, written)
    /\ UNCHANGED <<today, raw, date_data, histBefore, added_date, baseline, newDates,
                   rmtreeErrors>>
    /\ UNCHANGED <<badgeVars, simVars, rawOther>>

\* A variant that spares the directories of the integrations of any loaded
\* date.
RemoveObsolete_keepsKnown(failing, kept) ==
    LET obsolete == histDirs \ AllIntegrations(date_data)
    IN  /\ failing \subseteq obsolete
        /\ kept \subseteq {p \in DOMAIN histFiles : p[2] \in failing}
        /\ histDirs' = (histDirs \ obsolete) \cup failing
        /\ histFiles' = Restrict(histFiles,
                                 {p \in DOMAIN histFiles : p[2] \notin obsolete} \cup kept)
        /\ rmtreeErrors' = failing
        /\ faults' = faults + Cardinality(failing)
        /\ faults' <= MaxFaults
        /\ hpc' = "done"

\* main, lines 187-200: shutil.rmtree of every directory that is not an
\* integration of the latest date.  For the directories in failing it raises
\* OSError, which is printed, having removed all files but those in kept.
RemoveObsolete(failing, kept) ==
    LET obsolete == histDirs \ CurrentIntegrations(date_data)
    IN  /\ failing \subseteq obsolete
        /\ kept \subseteq {p \in DOMAIN histFiles : p[2] \in failing}
        /\ histDirs' = (histDirs \ obsolete) \cup failing
        /\ histFiles' = Restrict(histFiles,
                                 {p \in DOMAIN histFiles : p[2] \notin obsolete} \cup kept)
        /\ rmtreeErrors' = failing
        /\ faults' = faults + Cardinality(failing)
        /\ faults' <= MaxFaults
        /\ hpc' = "done"

Evict ==
    /\ hpc = "loop" /\ htodo = {}
    /\ RemoveObsolete({}, {})
    /\ UNCHANGED <<today, raw, date_data, htodo, histBefore, added_date, baseline,
                   newDates, histRemoveErrors>>
    /\ UNCHANGED <<badgeVars, simVars, rawOther>>

EvictFails ==
    /\ hpc = "loop" /\ htodo = {}
    /\ \E failing \in SUBSET histDirs \ {{}}, kept \in SUBSET DOMAIN histFiles :
          RemoveObsolete(failing, kept)
    /\ UNCHANGED <<today, raw, date_data, htodo, histBefore, added_date, baseline,
                   newDates, histRemoveErrors>>
    /\ UNCHANGED <<badgeVars, simVars, rawOther>>

\* The history process ends and its variables are gone.  From then on the
\* raw files may change again.
HistoryExit ==
    /\ hpc \in {"done", "failed"}
    /\ hpc' = "idle"
    /\ baseline' = (hpc = "done")
    /\ newDates' = {}
    /\ date_data' = << >>
    /\ htodo' = {}
    /\ histBefore' = << >>
    /\ added_date' = 0
    /\ histRemoveErrors' = {}
    /\ rmtreeErrors' = {}
    /\ UNCHANGED <<today, raw, faults, histDirs, histFiles>>
    /\ UNCHANGED <<badgeVars, simVars, rawOther>>

\* What history generation sees of a badge run: the raw file that
\* async_get_data, lines 33-43, stores under today's date.  The two scripts
\* are separate processes and run one after the other.
RawSnapshotStored(json_body) ==
    /\ pc = "start"
    /\ HistoryIdle
    /\ raw' = Put(raw, today, json_body)
    /\ rawOther' = Drop(rawOther, today)
    /\ baseline' = (baseline /\ (today \in DOMAIN raw => today \in newDates))
    /\ newDates' = IF baseline' THEN newDates \cup {today} ELSE {}
    /\ UNCHANGED <<today, faults, histDirs, histFiles, hpc, date_data, htodo, histBefore,
                   added_date, histRemoveErrors, rmtreeErrors>>
    /\ UNCHANGED <<badgeVars, simVars>>

FetchHistory == \E json_body \in HistoryFeed : RawSnapshotStored(json_body)

NextHistory ==
    \/ FetchHistory
    \/ NextDay
    \/ MainNoData
    \/ MainLoad
    \/ HistoryIntegration
    \/ HistoryIntegrationRemoveFails
    \/ HistoryIntegrationWriteRaises
    \/ Evict
    \/ EvictFails
    \/ HistoryExit

\* History generation over the raw files of several dates.
SpecHistory == Init /\ [][NextHistory]_vars

\* ---------------------------------------------------------------------
\* cleanup_old_version_files of the badge script and its simulation in
\* test_asusrouter_simulation.py, on file names as sequences of characters
\* ---------------------------------------------------------------------
VersionPrefix == <<"v", "e", "r", "s", "i", "o", "n", "-">>
JsonSuffix == <<".", "j", "s", "o", "n">>

\* The file names a badge directory may hold: version files of several
\* labels, among them the empty one and labels that repeat the prefix or the
\* suffix, and names that the pattern "version-*.json" does not match.
CleanupLabels ==
    {<< >>, <<"1">>, <<"2">>, JsonSuffix, VersionPrefix \o <<"1">>}
CleanupNames ==
    {VersionPrefix \o label \o JsonSuffix : label \in CleanupLabels}
    \cup {<<"t", "o", "t", "a", "l">> \o JsonSuffix, VersionPrefix \o <<"1">>}

\* The lists of current versions.
CleanupVersions == SUBSET {<< >>, <<"1">>, VersionPrefix \o <<"1">>}

startswith(str, prefix) ==
    Len(str) >= Len(prefix) /\ SubSeq(str, 1, Len(prefix)) = prefix
endswith(str, suffix) ==
    Len(str) >= Len(suffix) /\ SubSeq(str, Len(str) - Len(suffix) + 1, Len(str)) = suffix
removeprefix(str, prefix) ==
    IF startswith(str, prefix) THEN SubSeq(str, Len(prefix) + 1, Len(str)) ELSE str
removesuffix(str, suffix) ==
    IF endswith(str, suffix) THEN SubSeq(str, 1, Len(str) - Len(suffix)) ELSE str

\* glob.glob(os.path.join(integration_path, "version-*.json")): the names in
\* which something, or nothing, stands between "version-" and ".json"
glob(listing) ==
    {filename \in listing :
        /\ Len(filename) >= Len(VersionPrefix) + Len(JsonSuffix)
        /\ startswith(filename, VersionPrefix)
        /\ endswith(filename, JsonSuffix)}

\* custom_integration_badges.py, line 77
MainVersion(filename) == removesuffix(removeprefix(filename, VersionPrefix), JsonSuffix)

\* A variant of the slice that keeps the last character before ".json" out.
SimulationVersion_short(filename) == SubSeq(filename, 9, Len(filename) - 6)

\* test_asusrouter_simulation.py, line 50: filename[8:-5]
SimulationVersion(filename) == SubSeq(filename, 9, Len(filename) - 5)

\* A directory and a list of current versions to run both on.
InitCleanup ==
    /\ today = 1
    /\ raw = << >>
    /\ rawOther = << >>
    /\ badgeDirs = {}
    /\ badgeFiles = << >>
    /\ file_changes = EmptyChanges
    /\ pc = "start"
    /\ data = << >>
    /\ todo = {}
    /\ integration = ""
    /\ version_files = {}
    /\ versions_todo = {}
    /\ removeErrors = {}
    /\ exc = << >>
    /\ filesBefore = << >>
    /\ rerun = FALSE
    /\ faults = 0
    /\ histDirs = {}
    /\ histFiles = << >>
    /\ hpc = "idle"
    /\ date_data = << >>
    /\ htodo = {}
    /\ histBefore = << >>
    /\ added_date = 0
    /\ baseline = FALSE
    /\ newDates = {}
    /\ histRemoveErrors = {}
    /\ rmtreeErrors = {}
    /\ dir_listing \in SUBSET CleanupNames
    /\ current_list \in CleanupVersions
    /\ spc = "start"
    /\ files_to_remove = {}
    /\ files_to_keep = {}
    /\ main_todo = {}
    /\ dir_before = dir_listing
    /\ remove_failed = FALSE

\* cleanup_old_version_files_simulation, lines 40-63
cleanup_old_version_files_simulation ==
    /\ spc = "start"
    /\ files_to_remove' =
          {version_file \in glob(dir_listing) :
              startswith(version_file, VersionPrefix) /\ endswith(version_file, JsonSuffix)
              /\ SimulationVersion(version_file) \notin current_list}
    /\ files_to_keep' =
          {version_file \in glob(dir_listing) :
              startswith(version_file, VersionPrefix) /\ endswith(version_file, JsonSuffix)
              /\ SimulationVersion(version_file) \in current_list}
    /\ spc' = "simulated"
    /\ UNCHANGED <<dir_listing, current_list, main_todo, dir_before, remove_failed>>
    /\ UNCHANGED mainVars

\* cleanup_old_version_files, line 71
MainGlob ==
    /\ spc = "simulated"
    /\ main_todo' = glob(dir_listing)
    /\ spc' = "cleaning"
    /\ UNCHANGED <<dir_listing, current_list, files_to_remove, files_to_keep,
                   dir_before, remove_failed>>
    /\ UNCHANGED mainVars

\* cleanup_old_version_files, lines 73-78: whether the loop removes the file
MainRemoves(version_file) ==
    /\ startswith(version_file, VersionPrefix) /\ endswith(version_file, JsonSuffix)
    /\ MainVersion(version_file) \notin current_list

\* lines 73-78: a file that stays
MainKeep ==
    /\ spc = "cleaning"
    /\ \E version_file \in main_todo :
          /\ ~MainRemoves(version_file)
          /\ main_todo' = main_todo \ {version_file}
    /\ UNCHANGED <<dir_listing, current_list, spc, files_to_remove, files_to_keep,
                   dir_before, remove_failed>>
    /\ UNCHANGED mainVars

\* lines 79-82: os.remove succeeds
MainRemove ==
    /\ spc = "cleaning"
    /\ \E version_file \in main_todo :
          /\ MainRemoves(version_file)
          /\ main_todo' = main_todo \ {version_file}
          /\ dir_listing' = dir_listing \ {version_file}
    /\ UNCHANGED <<current_list, spc, files_to_remove, files_to_keep, dir_before,
                   remove_failed>>
    /\ UNCHANGED mainVars

\* lines 83-84: os.remove raises OSError
MainRemoveFails ==
    /\ spc = "cleaning"
    /\ \E version_file \in main_todo :
          /\ MainRemoves(version_file)
          /\ main_todo' = main_todo \ {version_file}
    /\ remove_failed' = TRUE
    /\ UNCHANGED <<dir_listing, current_list, spc, files_to_remove, files_to_keep,
                   dir_before>>
    /\ UNCHANGED mainVars

\* the loop of line 73 has ended
MainReturn ==
    /\ spc = "cleaning" /\ main_todo = {}
    /\ spc' = "cleaned"
    /\ UNCHANGED <<dir_listing, current_list, files_to_remove, files_to_keep,
                   main_todo, dir_before, remove_failed>>
    /\ UNCHANGED mainVars

NextCleanup ==
    \/ cleanup_old_version_files_simulation
    \/ MainGlob
    \/ MainKeep
    \/ MainRemove
    \/ MainRemoveFails
    \/ MainReturn

\* The simulation and then the cleanup of the main script, on one directory.
SpecCleanup == InitCleanup /\ [][NextCleanup]_vars

\* ---------------------------------------------------------------------
\* History generation over files that the two scripts did not write
\* ---------------------------------------------------------------------
BS == <<"a", "\\", "b">>

\* What the raw files hold here: "foo" with a total and one version label that
\* has a backslash, or "bar" with a total.
ForeignFoo ==
    [has_total |-> TRUE, total |-> 1, has_versions |-> TRUE, versions |-> [v \in {BS} |-> 1]]
ForeignFeed ==
    {s \in Dict(Integrations, {ForeignFoo} \cup HistoryBar) :
        /\ Cardinality(DOMAIN s) = 1
        /\ "foo" \in DOMAIN s => s["foo"] = ForeignFoo
        /\ "bar" \in DOMAIN s => s["bar"] \in HistoryBar}

FetchForeign == \E json_body \in ForeignFeed : RawSnapshotStored(json_body)

\* A snapshot is put into the raw directory under a name that isoformat()
\* does not give.
ForeignRawFile ==
    /\ pc = "start" /\ HistoryIdle
    /\ \E k \in FileKeys \ Dates, json_body \in ForeignFeed :
          /\ raw' = Put(raw, k, json_body)
          /\ rawOther' = Drop(rawOther, k)
    /\ baseline' = FALSE
    /\ newDates' = {}
    /\ UNCHANGED <<today, faults, histDirs, histFiles, hpc, date_data, htodo, histBefore,
                   added_date, histRemoveErrors, rmtreeErrors>>
    /\ UNCHANGED <<badgeVars, simVars>>

\* The raw file of a date gets a content that is not JSON, or a JSON array.
BrokenRawFile ==
    /\ pc = "start" /\ HistoryIdle
    /\ \E k \in Dates, content \in {"unparsable", "array"} :
          /\ rawOther' = Put(rawOther, k, content)
          /\ raw' = Drop(raw, k)
    /\ baseline' = FALSE
    /\ newDates' = {}
    /\ UNCHANGED <<today, faults, histDirs, histFiles, hpc, date_data, htodo, histBefore,
                   added_date, histRemoveErrors, rmtreeErrors>>
    /\ UNCHANGED <<badgeVars, simVars>>

\* A version file with an empty series is put into a history directory.
PlantHistoryFile ==
    /\ pc = "start" /\ HistoryIdle
    /\ \E i \in Integrations, version \in {BS, US} :
          /\ histFiles' = Put(histFiles, HistPath(i, VersionName(version)), << >>)
          /\ histDirs' = histDirs \cup {i}
    /\ UNCHANGED <<today, raw, faults, hpc, date_data, htodo, histBefore, added_date,
                   baseline, newDates, histRemoveErrors, rmtreeErrors>>
    /\ UNCHANGED <<badgeVars, simVars, rawOther>>

NextForeign ==
    \/ FetchForeign
    \/ NextDay
    \/ ForeignRawFile
    \/ BrokenRawFile
    \/ PlantHistoryFile
    \/ MainNoData
    \/ MainLoad
    \/ MainLoadRaises
    \/ HistoryIntegration
    \/ Evict
    \/ HistoryExit

\* History generation, with no failing operation, over raw files and history
\* files that come from elsewhere.
SpecForeign == Init /\ [][NextForeign]_vars

\* ------------------------------------------------- claims on the badge run
IsBadgePath(p) == p[1] = PROCESSED_PATH
BadgePaths(seq) == {p \in Range(seq) : IsBadgePath(p)}

\* The artifacts a snapshot defines for an integration (the spec's ArtifactSet).
DesiredFiles(i, integration_data) ==
    (IF integration_data.has_total THEN {BadgePath(i, TotalName)} ELSE {})
    \cup {BadgePath(i, VersionName(v)) : v \in CurrentVersions(integration_data)}

DesiredBadge(p, integration_data) ==
    IF p[3] = TotalName
    THEN generate_badge(integration_data.total)
    ELSE generate_badge(integration_data.versions[VersionOfFile(p[3])])

\* C1 (as claimed): after a badge run in which nothing failed, the files in
\* the badge directory of every integration of the snapshot are exactly the
\* artifacts the snapshot defines for it.
C1_Completeness ==
    (pc = "done" /\ faults = 0) =>
        \A i \in DOMAIN data : FilesIn(i) = DesiredFiles(i, data[i])

\* C2 (as claimed): a run on the same snapshot as the completed run before
\* it reports no badge artifact as added, modified or removed.
C2_Idempotence ==
    (pc = "done" /\ rerun /\ faults = 0) =>
        /\ BadgePaths(file_changes.added) = {}
        /\ BadgePaths(file_changes.modified) = {}
        /\ BadgePaths(file_changes.removed) = {}

\* C3 (as claimed): a badge file is reported modified only if it existed
\* before the run with another count, and a file that the run found with the
\* count of the snapshot is in none of the three lists.
C3_ModifiedOnlyWhenCountDiffers ==
    /\ \A p \in BadgePaths(file_changes.modified) :
          p \in DOMAIN filesBefore /\ filesBefore[p] # badgeFiles[p]
    /\ \A p \in DOMAIN filesBefore \cap DOMAIN badgeFiles :
          (p[2] \in DOMAIN data
             /\ p \in DesiredFiles(p[2], data[p[2]])
             /\ filesBefore[p] = DesiredBadge(p, data[p[2]]))
          => p \notin Range(file_changes.added) \cup Range(file_changes.modified)
                        \cup Range(file_changes.removed)

\* C5: in every state of a badge run, no path is in more than one of the
\* lists added, modified and removed.
C5_Disjoint ==
    /\ Range(file_changes.added) \cap Range(file_changes.modified) = {}
    /\ Range(file_changes.added) \cap Range(file_changes.removed) = {}
    /\ Range(file_changes.modified) \cap Range(file_changes.removed) = {}

\* A completed run that added, modified and removed badge files.
C5_Witness ==
    /\ pc = "done"
    /\ BadgePaths(file_changes.added) # {}
    /\ BadgePaths(file_changes.modified) # {}
    /\ BadgePaths(file_changes.removed) # {}

\* C6: a step changes no raw file but today's and removes none, and the step
\* in which async_get_data returns leaves json_body in today's file.
C6_StoreTouchesOnlyToday ==
    [][/\ \A d \in DOMAIN raw : d # today => (d \in DOMAIN raw' /\ raw'[d] = raw[d])
       /\ DOMAIN raw \subseteq DOMAIN raw' /\ DOMAIN raw' \subseteq DOMAIN raw \cup {today}
       /\ (pc \in {"start", "done", "failed"} /\ pc' = "loop")
            => (today \in DOMAIN raw' /\ raw'[today] = data')]_vars

\* A second fetch on the second date has overwritten that date's file, and
\* the file of the first date holds another snapshot.
C6_Witness ==
    /\ today = 2 /\ DOMAIN raw = {1, 2}
    /\ raw[1] # raw[2]
    /\ RawPath(2) \in Range(file_changes.modified)

\* The artifacts whose write or delete failed in the running process.
FailedArtifacts == removeErrors \cup (IF exc # << >> /\ IsBadgePath(exc) THEN {exc} ELSE {})

\* C10 (as claimed): a process in which the write or the delete of an artifact
\* failed has still processed the other artifacts of that integration, and
\* ends with one error that lists every artifact that failed.
C10_PartialFailureVisible ==
    (pc \in {"done", "failed"} /\ FailedArtifacts # {}) =>
        /\ pc = "failed"
        /\ FailedArtifacts \subseteq {exc}
        /\ \A p \in DesiredFiles(exc[2], data[exc[2]]) \ FailedArtifacts :
              p \in DOMAIN badgeFiles /\ badgeFiles[p] = DesiredBadge(p, data[exc[2]])

\* The paths in one of the three lists of file_changes.
Listed ==
    Range(file_changes.added) \cup Range(file_changes.modified)
        \cup Range(file_changes.removed)

\* The badge paths that the running process has still to write or to examine:
\* those of the integrations the loop has not reached, the listed files that
\* the cleanup loop has not reached, and the badges of the integration in
\* hand that are written after the position of the process.
NotYetPerformed ==
    {p \in DOMAIN badgeFiles : p[2] \in todo}
    \cup UNION {DesiredFiles(i, data[i]) : i \in todo}
    \cup (IF pc = "cleanup"
          THEN version_files \cup DesiredFiles(integration, data[integration])
          ELSE {})
    \cup (IF pc = "versions"
          THEN {BadgePath(integration, VersionName(v)) : v \in versions_todo}
          ELSE {})

\* C12: in every state, a path in added or modified has been written with
\* the value of the running process, and no path whose delete or write
\* failed, or is still to come, is in any of the three lists; a process whose
\* request failed has listed nothing.
C12_WriteThenReport ==
    /\ \A p \in Range(file_changes.added) \cup Range(file_changes.modified) :
          IF IsBadgePath(p)
          THEN p \in DOMAIN badgeFiles /\ badgeFiles[p] = DesiredBadge(p, data[p[2]])
          ELSE p = RawPath(today) /\ today \in DOMAIN raw /\ raw[today] = data
    /\ removeErrors \cap Listed = {}
    /\ exc # << >> => exc \notin Listed
    /\ exc = <<DATA_URL>> => Listed = {}
    /\ NotYetPerformed \cap Listed = {}

\* A process has ended in which one os.remove failed and another succeeded,
\* and a badge was written over an existing one.
C12_Witness ==
    /\ pc = "done"
    /\ removeErrors # {}
    /\ BadgePaths(file_changes.removed) # {}
    /\ BadgePaths(file_changes.modified) # {}

\* The order of two file names of a badge directory: "total.json" is before
\* every "version-...", and two of these compare from the label on.
FileNameLess(f, g) ==
    IF f = TotalName THEN g # TotalName
    ELSE g # TotalName /\ StrLess(f[2] \o JsonSuffix, g[2] \o JsonSuffix)

\* The order of two integration names of the feed.
NameLess(i, j) == i = "bar" /\ j = "foo"

\* The lexicographic order of two badge paths.
PathLess(p, q) ==
    \/ NameLess(p[2], q[2])
    \/ p[2] = q[2] /\ FileNameLess(p[3], q[3])

IsSortedSeq(seq) == \A m, n \in DOMAIN seq : m < n => PathLess(seq[m], seq[n])

\* C13 (as claimed, for the badge paths of the report): in the report of a
\* badge run the badge paths of added, of modified and of removed are each in
\* lexicographic order.
C13_ReportSorted ==
    pc = "done" =>
        /\ IsSortedSeq(SelectSeq(summary_data.added, IsBadgePath))
        /\ IsSortedSeq(SelectSeq(summary_data.modified, IsBadgePath))
        /\ IsSortedSeq(SelectSeq(summary_data.removed, IsBadgePath))

\* C15: no step of a badge run creates or removes the directory, or changes,
\* adds or removes a file, of an integration that the fetched data does not
\* list, and no path of such an integration is in the lists of file_changes.
C15_AbsentUntouched ==
    [][\A i \in Integrations \ DOMAIN data' :
          /\ (i \in badgeDirs') = (i \in badgeDirs)
          /\ \A p \in DOMAIN badgeFiles \cup DOMAIN badgeFiles' :
                p[2] = i => /\ p \in DOMAIN badgeFiles /\ p \in DOMAIN badgeFiles'
                            /\ badgeFiles'[p] = badgeFiles[p]
          /\ \A p \in BadgePaths(file_changes'.added) \cup BadgePaths(file_changes'.modified)
                       \cup BadgePaths(file_changes'.removed) : p[2] # i]_vars

\* A run has ended that changed badge files, while the directory of an
\* integration absent from its data holds the version files it held before.
C15_Witness ==
    /\ pc = "done"
    /\ Listed \cap DOMAIN badgeFiles # {}
    /\ \E i \in badgeDirs \ DOMAIN data : GlobVersionFiles(i) # {}

\* C18: no listed file is left for the cleanup of an integration once one of
\* its badges is in added or modified; a path in added or modified exists and
\* is not in removed; a path in removed does not exist.
C18_CleanupBeforeWrites ==
    /\ (pc = "cleanup" /\ version_files # {}) =>
          \A p \in Range(file_changes.added) \cup Range(file_changes.modified) :
             IsBadgePath(p) => p[2] # integration
    /\ \A p \in BadgePaths(file_changes.added) \cup BadgePaths(file_changes.modified) :
          p \in DOMAIN badgeFiles /\ p \notin Range(file_changes.removed)
    /\ \A p \in Range(file_changes.removed) : p \notin DOMAIN badgeFiles

\* A run has ended that removed version files of an integration and then
\* wrote badges of it.
C18_Witness ==
    /\ pc = "done"
    /\ \E p \in Range(file_changes.removed) :
          \E q \in BadgePaths(file_changes.added) \cup BadgePaths(file_changes.modified) :
             q[2] = p[2] /\ IsVersionFile(q[3])

\* C16: when the cleanup of the main script has run after the simulation on
\* the same directory and no os.remove failed, the files the simulation
\* marked WOULD REMOVE are the files that are gone, and the files it marked
\* WOULD KEEP are the files left that "version-*.json" matches.
C16_SimulationAgrees ==
    (spc = "cleaned" /\ ~remove_failed) =>
        /\ files_to_remove = dir_before \ dir_listing
        /\ files_to_keep = glob(dir_listing)

\* Both have run on a directory with a version file whose label ends in
\* ".json", and files were removed and files were kept.
C16_Witness ==
    /\ spc = "cleaned" /\ ~remove_failed
    /\ VersionPrefix \o JsonSuffix \o JsonSuffix \in dir_before
    /\ files_to_remove # {}
    /\ files_to_keep # {}

\* ---------------------------------------------------------------------
\* History generation: the claims
\* ---------------------------------------------------------------------

\* The integrations that have a directory or a file under the history root.
HistoryEntities == histDirs \cup {p[2] : p \in DOMAIN histFiles}

PresentDates(i, dd) == {d \in DOMAIN dd : i \in DOMAIN dd[d]}
TotalDates(i, dd) == {d \in PresentDates(i, dd) : dd[d][i].has_total}
LabelDates(i, v, dd) ==
    {d \in PresentDates(i, dd) : dd[d][i].has_versions /\ v \in DOMAIN dd[d][i].versions}
Labels(i, dd) ==
    UNION {DOMAIN dd[d][i].versions : d \in {e \in PresentDates(i, dd) : dd[e][i].has_versions}}

\* The lines of a series file are the entries of the series, by date.
FileHolds(content, series) ==
    /\ Len(content) = Cardinality(DOMAIN series)
    /\ \A n \in DOMAIN content :
          content[n][1] \in DOMAIN series /\ content[n][2] = series[content[n][1]]
    /\ \A m, n \in DOMAIN content : m < n => content[m][1] < content[n][1]

\* The labels of the integration whose file name no other of its labels has.
SoleLabels(i, dd) ==
    {v \in Labels(i, dd) :
        \A w \in Labels(i, dd) : SafeVersion(w) = SafeVersion(v) => w = v}

\* The integrations whose pass of the loop is over and whose directory main
\* does not remove.
Processed ==
    IF hpc = "loop" THEN AllIntegrations(date_data) \ htodo
    ELSE IF hpc = "done" THEN CurrentIntegrations(date_data)
    ELSE {}

\* C7: the total series of an integration has the entry date -> total for
\* exactly the loaded dates whose snapshot gives the integration a total, the
\* series of each of its version labels the entry date -> count for exactly
\* the dates whose snapshot lists the label; every write of
\* process_integration_history is such a series, and so is what total.json
\* and the file of a label holds once the pass is over.
C7_SeriesConstruction ==
    (hpc \in {"loop", "done", "failed"} /\ date_data # << >>) =>
        \A i \in AllIntegrations(date_data) :
           LET h == History(i, date_data)
               total_series == [d \in TotalDates(i, date_data) |-> date_data[d][i].total]
               label_series(v) ==
                   [d \in LabelDates(i, v, date_data) |-> date_data[d][i].versions[v]]
           IN  /\ DOMAIN h.total_history = DOMAIN total_series
               /\ \A d \in DOMAIN total_series : h.total_history[d] = total_series[d]
               /\ DOMAIN h.version_histories = Labels(i, date_data)
               /\ \A v \in Labels(i, date_data) :
                     /\ DOMAIN h.version_histories[v] = DOMAIN label_series(v)
                     /\ \A d \in DOMAIN label_series(v) :
                           h.version_histories[v][d] = label_series(v)[d]
               /\ \A order \in InsertionOrders(h.version_histories) :
                     LET writes == HistoryWrites(i, date_data, order)
                         k == IF TotalDates(i, date_data) = {} THEN 0 ELSE 1
                     IN  /\ Len(writes) = k + Cardinality(Labels(i, date_data))
                         /\ k = 1 => /\ writes[1][1] = HistPath(i, TotalName)
                                      /\ FileHolds(writes[1][2], total_series)
                         /\ \A n \in 1..Len(order) :
                               FileHolds(writes[k + n][2], label_series(order[n]))
               /\ i \in Processed =>
                     /\ TotalDates(i, date_data) # {} =>
                           /\ HistPath(i, TotalName) \in DOMAIN histFiles
                           /\ FileHolds(histFiles[HistPath(i, TotalName)], total_series)
                     /\ \A v \in SoleLabels(i, date_data) :
                           LET p == HistPath(i, VersionName(SafeVersion(v)))
                           IN  p \in DOMAIN histFiles /\ FileHolds(histFiles[p], label_series(v))

\* A run has ended over two dates, of which only the later lists the
\* integration, with a total and a version label, and its files are written.
C7_Witness ==
    /\ hpc = "done" /\ Cardinality(DOMAIN date_data) = 2
    /\ \E i \in CurrentIntegrations(date_data) :
          /\ PresentDates(i, date_data) # DOMAIN date_data
          /\ TotalDates(i, date_data) # {}
          /\ SoleLabels(i, date_data) # {}
          /\ HistPath(i, TotalName) \in DOMAIN histFiles

\* C8 (as claimed, for the integrations that the new snapshot lists): the run
\* after one new dated snapshot keeps every series file that the run before
\* left, and in it every entry of another date, with its value.
C8_MonotonicAppend ==
    (hpc = "done" /\ added_date # 0) =>
        \A p \in DOMAIN histBefore :
           p[2] \in CurrentIntegrations(date_data) =>
              /\ p \in DOMAIN histFiles
              /\ \A n \in DOMAIN histBefore[p] :
                    histBefore[p][n][1] # added_date =>
                       \E m \in DOMAIN histFiles[p] : histFiles[p][m] = histBefore[p][n]

\* C9 (as claimed): no two version labels of an integration get the same
\* history file name, and the label that cleanup_old_version_files restores
\* from the file name of a label is that label.
C9_IdentifiersRoundTrip ==
    (hpc \in {"loop", "done"} /\ date_data # << >>) =>
        \A i \in AllIntegrations(date_data) :
           LET labels == DOMAIN History(i, date_data).version_histories
           IN  /\ \A v, w \in labels :
                     VersionName(SafeVersion(v)) = VersionName(SafeVersion(w)) => v = w
               /\ \A v \in labels :
                     OriginalVersion(VersionOfFile(VersionName(SafeVersion(v)))) = v

\* C11 (as claimed): a run of main over a raw directory with bad files does
\* not fail: no file with a name that is no calendar date, or with a content
\* that is no snapshot, is among what it builds the series from, and every
\* other snapshot is.
C11_BadFilesSkipped ==
    (hpc # "idle") =>
        /\ hpc # "failed"
        /\ SkippedFiles \cap DOMAIN date_data = {}
        /\ \A k \in DOMAIN raw : ValidName(k) => k \in DOMAIN date_data /\ date_data[k] = raw[k]

\* The date of the calendar that strptime reads from one file name is before
\* the one that it reads from the other.
CalendarLess(j, k) ==
    LET a == strptime(FileStem(j))
        b == strptime(FileStem(k))
    IN  a.month < b.month \/ (a.month = b.month /\ a.day < b.day)

\* C14 (as claimed): the lines of every series file of an integration that
\* main has processed are in ascending order of their calendar dates.
C14_CalendarOrder ==
    (hpc \in {"loop", "done"} /\ date_data # << >>) =>
        \A p \in DOMAIN histFiles :
            p[2] \in Processed =>
                \A m, n \in DOMAIN histFiles[p] :
                    m < n => ~CalendarLess(histFiles[p][n][1], histFiles[p][m][1])

\* C17 (as claimed): after a run of main the version files in the history
\* directory of an integration of the latest snapshot are the files of the
\* sanitized labels that some loaded snapshot has for it, and no other.
C17_VersionFilesExact ==
    (hpc = "done" /\ date_data # << >>) =>
        \A i \in CurrentIntegrations(date_data) :
            {p \in DOMAIN histFiles : p[2] = i /\ IsVersionFile(p[3])}
                = {HistPath(i, VersionName(SafeVersion(v))) : v \in Labels(i, date_data)}

====
